---- MODULE Spec2Model ----
(***************************************************************************)
(* Model of the mach-6 traversal-and-matching engine: the four preorder    *)
(* traversals of src/lib.rs (naive, selector map, selector map with the    *)
(* ancestor bloom filter, style sharing), the result structs of            *)
(* src/structs.rs and the comparison harness of tests/websites_suite.rs.   *)
(* The selector engine (selector matching, SelectorMap, StyleBloom) is an  *)
(* external collaborator; it is modelled from its contract.                *)
(***************************************************************************)
EXTENDS Integers, Sequences, FiniteSets, TLC

\* ------------------------------------------------------------------------
\* Bounds
\* ------------------------------------------------------------------------
\* Nodes of a document tree, the Document node included.
MaxNodes == 5
\* Length of the selector list handed to a traversal.
MaxSelectors == 2
\* Width in bits of one bloom-filter key (the counting filter has 2^KeyBits
\* counters).
KeyBits == 1
\* Traversals of one comparison (compare_with_naive, statistics_dont_change).
NumRuns == 2

\* ------------------------------------------------------------------------
\* Documents (scraper::Html over an ego-tree)
\* ------------------------------------------------------------------------
\* Node 1 is the Document node, node 2 the root element; the parser numbers
\* the nodes in document order, so children are ordered by node id.
DocumentKind == "#document"
TextKind == "#text"
RootTag == "html"
Tags == {"b"}
NodeKinds == Tags \cup {TextKind}

MakeDoc(n, p, k) ==
    [ n      |-> n,
      parent |-> [i \in 1..n |-> IF i = 1 THEN 0 ELSE IF i = 2 THEN 1 ELSE p[i]],
      kind   |-> [i \in 1..n |-> IF i = 1 THEN DocumentKind
                                 ELSE IF i = 2 THEN RootTag ELSE k[i]] ]

IsElementKind(k) == k \notin {DocumentKind, TextKind}

RECURSIVE OnPathTo(_, _, _)
\* a is i or one of the nodes above i.
OnPathTo(par, a, i) == i # 0 /\ (a = i \/ OnPathTo(par, a, par[i]))

\* Node ids follow document order: a node hangs below its predecessor or below
\* one of the predecessor's ancestors; only elements have children.
WellFormed(d) ==
    \A i \in 3..d.n : /\ OnPathTo(d.parent, d.parent[i], i - 1)
                      /\ IsElementKind(d.kind[d.parent[i]])

Docs ==
    UNION { { d \in { MakeDoc(n, p, k) : p \in [3..n -> 2..n], k \in [3..n -> NodeKinds] }
                : WellFormed(d) } : n \in 2..MaxNodes }

\* Node::is_element
IsElement(d, i) == IsElementKind(d.kind[i])

\* Html::root_element: the first element child of the Document node.
root_element(d) == CHOOSE i \in 1..d.n : d.parent[i] = 1 /\ IsElement(d, i)

RECURSIVE SeqOfSet(_)
SeqOfSet(S) ==
    IF S = {} THEN <<>>
    ELSE LET m == CHOOSE x \in S : \A y \in S : x <= y
         IN <<m>> \o SeqOfSet(S \ {m})

\* NodeRef::children: all child nodes, in document order.
children(d, e) == SeqOfSet({ i \in 1..d.n : d.parent[i] = e })

\* ElementRef::child_elements: the children that are elements.
child_elements(d, e) == SeqOfSet({ i \in 1..d.n : d.parent[i] = e /\ IsElement(d, i) })

\* A traversal_parent that also answers None below the root element.
traversal_parent_below_root(d, e) ==
    IF d.parent[e] = 0 THEN 0
    ELSE IF d.kind[d.parent[e]] \in {DocumentKind, RootTag} THEN 0
    ELSE d.parent[e]

\* SelectorMapElement::traversal_parent: None (0) below the Document node.
traversal_parent(d, e) ==
    IF d.parent[e] = 0 THEN 0
    ELSE IF d.kind[d.parent[e]] = DocumentKind THEN 0
    ELSE d.parent[e]

\* selectors::Element::parent_element
parent_element(d, e) ==
    IF d.parent[e] # 0 /\ IsElement(d, d.parent[e]) THEN d.parent[e] ELSE 0

RECURSIVE Ancestors(_, _)
\* The ancestor elements of e, outermost first.
Ancestors(d, e) ==
    IF parent_element(d, e) = 0 THEN <<>>
    ELSE Append(Ancestors(d, parent_element(d, e)), parent_element(d, e))

\* The elements reachable from the root by child-element iteration.
RECURSIVE Reachable(_, _)
Reachable(d, e) ==
    {e} \cup UNION { Reachable(d, c) : c \in { i \in 1..d.n : d.parent[i] = e /\ IsElement(d, i) } }

\* ------------------------------------------------------------------------
\* Element identity (structs.rs, From<ElementRef> for Element)
\* ------------------------------------------------------------------------
\* DefaultHasher (SipHash-1-3, zero key) of the node id, as a decimal string.
NodeIdHash ==
    <<"2206609067086327257", "11876854719037224982", "18270091135093349626",
      "6185506036438099345", "15794382300316794652", "18147521187885925800",
      "7364705619221056123", "2404222719611925354">>

get_start_tag(d, e) == "<" \o d.kind[e] \o ">"

\* An Element whose key hashes the start tag instead of the node id.
ElementKeyedByTag(d, e) == [id |-> get_start_tag(d, e), html |-> get_start_tag(d, e)]

ElementFrom(d, e) == [id |-> NodeIdHash[e], html |-> get_start_tag(d, e)]

\* ------------------------------------------------------------------------
\* Selectors (selectors::parser::Selector) and the selector engine
\* ------------------------------------------------------------------------
\* A selector is its sequence of compound selectors, rightmost first; comb is
\* the combinator that links a compound to the one on its left.
Compound(tag, comb) == [tag |-> tag, comb |-> comb]

\* "b b", "html > b" and "a b"; no element of a document is an a.
SelBDescB == <<Compound("b", "descendant"), Compound("b", "none")>>
SelHtmlChildB == <<Compound("b", "child"), Compound("html", "none")>>
SelADescB == <<Compound("b", "descendant"), Compound("a", "none")>>

SelectorPool == {SelBDescB, SelHtmlChildB, SelADescB}

SelectorLists == UNION { [1..k -> SelectorPool] : k \in 0..MaxSelectors }

RECURSIVE to_css_from(_, _)
to_css_from(sel, i) ==
    IF i = Len(sel) THEN sel[i].tag
    ELSE to_css_from(sel, i + 1)
         \o (IF sel[i].comb = "child" THEN " > " ELSE " ")
         \o sel[i].tag

\* Selector::to_css_string: the text of a selector, leftmost compound first.
to_css_string(sel) == to_css_from(sel, 1)

RECURSIVE matches_complex_selector(_, _, _, _)
\* Full structural matching of compounds i.. of sel against element e.
matches_complex_selector(d, e, sel, i) ==
    /\ d.kind[e] = sel[i].tag
    /\ \/ i = Len(sel)
       \/ /\ i < Len(sel)
          /\ IF sel[i].comb = "child"
             THEN /\ parent_element(d, e) # 0
                  /\ matches_complex_selector(d, parent_element(d, e), sel, i + 1)
             ELSE \E j \in 1..Len(Ancestors(d, e)) :
                      matches_complex_selector(d, Ancestors(d, e)[j], sel, i + 1)

\* Fingerprint of an atom (a precomputed string hash in the engine); the
\* fingerprints of html and a share their filter keys.
AtomHash(tag) ==
    CASE tag = "html" -> 4
      [] tag = "a"    -> 20
      [] tag = "b"    -> 3
      [] OTHER        -> 7

\* AncestorHashes::new: the fingerprints a selector requires of ancestors.
AncestorHashes(sel) == [i \in 1..(Len(sel) - 1) |-> AtomHash(sel[i + 1].tag)]

\* ------------------------------------------------------------------------
\* Counting bloom filter and StyleBloom (style::bloom)
\* ------------------------------------------------------------------------
KeyMask == 2 ^ KeyBits
hash1(h) == h % KeyMask
hash2(h) == (h \div KeyMask) % KeyMask

EmptyFilter == [k \in 0..(KeyMask - 1) |-> 0]

Adjust(f, k, delta) == [f EXCEPT ![k] = @ + delta]

insert_hash(f, h) == Adjust(Adjust(f, hash1(h), 1), hash2(h), 1)
remove_hash(f, h) == Adjust(Adjust(f, hash1(h), -1), hash2(h), -1)
might_contain_hash(f, h) == f[hash1(h)] # 0 /\ f[hash2(h)] # 0

\* selectors::matching::may_match: FALSE is a fast reject.
may_match(hashes, f) == \A i \in 1..Len(hashes) : might_contain_hash(f, hashes[i])

\* The bloom_filter argument of MatchingContext::new: None or Some(filter).
NoFilter == [some |-> FALSE, filter |-> EmptyFilter]
SomeFilter(f) == [some |-> TRUE, filter |-> f]

\* A selector is fast-rejected when the rule's hashes and the context's filter
\* are both present and the filter lacks a required fingerprint.
fast_rejected(sel, useHashes, bloom) ==
    useHashes /\ bloom.some /\ ~may_match(AncestorHashes(sel), bloom.filter)

\* selectors::matching::matches_selector
matches_selector(d, sel, useHashes, e, bloom) ==
    /\ ~fast_rejected(sel, useHashes, bloom)
    /\ matches_complex_selector(d, e, sel, 1)

NewStyleBloom == [elements |-> <<>>, filter |-> EmptyFilter, poisoned |-> FALSE]

\* StyleBloom::push: record the element and insert its fingerprint.
BloomPush(d, sb, e) ==
    [sb EXCEPT !.elements = Append(@, e),
               !.filter = insert_hash(@, AtomHash(d.kind[e]))]

\* StyleBloom::pop: forget the innermost element and remove its fingerprint.
BloomPop(d, sb) ==
    LET e == sb.elements[Len(sb.elements)]
    IN [sb EXCEPT !.elements = SubSeq(@, 1, Len(@) - 1),
                  !.filter = remove_hash(@, AtomHash(d.kind[e]))]

RECURSIVE BloomClear(_, _)
BloomClear(d, sb) == IF sb.elements = <<>> THEN sb ELSE BloomClear(d, BloomPop(d, sb))

RECURSIVE BloomPushAll(_, _, _)
BloomPushAll(d, sb, es) ==
    IF es = <<>> THEN sb ELSE BloomPushAll(d, BloomPush(d, sb, Head(es)), Tail(es))

RECURSIVE TraversalAncestors(_, _)
\* The chain of traversal parents of e, outermost first.
TraversalAncestors(d, e) ==
    IF traversal_parent(d, e) = 0 THEN <<>>
    ELSE Append(TraversalAncestors(d, traversal_parent(d, e)), traversal_parent(d, e))

\* StyleBloom::rebuild
BloomRebuild(d, sb, e) == BloomPushAll(d, BloomClear(d, sb), TraversalAncestors(d, e))

RECURSIVE BloomPopTo(_, _, _)
BloomPopTo(d, sb, len) ==
    IF Len(sb.elements) > len THEN BloomPopTo(d, BloomPop(d, sb), len) ELSE sb

Poison(sb) == [sb EXCEPT !.poisoned = TRUE]

RECURSIVE ClimbToDepth(_, _, _, _, _)
\* Collect the parents above the filter's depth; cp = 0 is a failed expect.
ClimbToDepth(d, cp, cpDepth, curDepth, pending) ==
    IF cp # 0 /\ cpDepth > curDepth
    THEN ClimbToDepth(d, traversal_parent(d, cp), cpDepth - 1, curDepth, <<cp>> \o pending)
    ELSE [cp |-> cp, pending |-> pending]

RECURSIVE FindCommonParent(_, _, _, _)
\* Pop until the filter's innermost element is the common parent.
FindCommonParent(d, sb, cp, pending) ==
    IF cp = 0 \/ sb.elements = <<>> THEN Poison(sb)
    ELSE IF sb.elements[Len(sb.elements)] = cp THEN BloomPushAll(d, sb, pending)
    ELSE FindCommonParent(d, BloomPop(d, sb), traversal_parent(d, cp), <<cp>> \o pending)

\* StyleBloom::insert_parents_recovering
insert_parents_recovering(d, sb, element, element_depth) ==
    IF sb.elements = <<>> THEN BloomRebuild(d, sb, element)
    ELSE IF traversal_parent(d, element) = 0 THEN BloomClear(d, sb)
    ELSE IF sb.elements[Len(sb.elements)] = traversal_parent(d, element) THEN sb
    ELSE IF element_depth = 0 THEN BloomClear(d, sb)
    ELSE LET popped == BloomPopTo(d, sb, element_depth)
             climbed == ClimbToDepth(d, traversal_parent(d, element), element_depth - 1,
                                     Len(popped.elements) - 1, <<>>)
             synced == FindCommonParent(d, popped, climbed.cp, climbed.pending)
         IN IF Len(synced.elements) # element_depth THEN Poison(synced) ELSE synced

\* ------------------------------------------------------------------------
\* SelectorMap<Rule> (style::selector_map) and build_selector_map
\* ------------------------------------------------------------------------
\* A rule keeps its selector, the selector's ancestor hashes and its position
\* in the input list.
Rule(sel, i) == [selector |-> sel, hashes |-> AncestorHashes(sel), source_order |-> i]

\* SelectorMap::insert files a rule under the local name of its rightmost
\* compound.
BucketOf(rule) == rule.selector[1].tag

\* A selector map whose enumeration loses the first selector of the list.
build_selector_map_skipping(sels) ==
    [t \in Tags \cup {RootTag} |->
        SelectSeq([i \in 1..(Len(sels) - 1) |-> Rule(sels[i + 1], i)],
                  LAMBDA r : BucketOf(r) = t)]

build_selector_map(sels) ==
    [t \in Tags \cup {RootTag} |->
        SelectSeq([i \in 1..Len(sels) |-> Rule(sels[i], i - 1)],
                  LAMBDA r : BucketOf(r) = t)]

\* SelectorMap::get_all_matching_rules: the rules of the element's bucket
\* that pass matches_selector with their own hashes, as selectors.
get_all_matching_rules(d, map, e, bloom) ==
    LET hit == SelectSeq(map[d.kind[e]],
                         LAMBDA r : matches_selector(d, r.selector, TRUE, e, bloom))
    IN [i \in 1..Len(hit) |-> hit[i].selector]

\* ------------------------------------------------------------------------
\* Results (structs.rs)
\* ------------------------------------------------------------------------
\* SelectorsOrSharedStyles
Selectors(sels) == [kind |-> "Selectors", selectors |-> sels]
SharedWithElement(id) == [kind |-> "SharedWithElement", id |-> id]

ElementMatches(d, e, outcome) == [element |-> ElementFrom(d, e), selectors |-> outcome]

\* ------------------------------------------------------------------------
\* The traversals (lib.rs)
\* ------------------------------------------------------------------------
Naive == "Naive"
WithSelectorMap == "WithSelectorMap"
WithBloomFilter == "WithBloomFilter"
WithStyleSharing == "WithStyleSharing"
Algorithms == {Naive, WithSelectorMap, WithBloomFilter, WithStyleSharing}
Optimized == Algorithms \ {Naive}

\* The strategies that keep a StyleBloom and check the parent of each child.
UsesBloom(alg) == alg \in {WithBloomFilter, WithStyleSharing}

\* ------------------------------------------------------------------------
\* Statistics (selectors::matching::Statistics)
\* ------------------------------------------------------------------------
\* Option<usize>: None is the empty sequence, Some(n) the sequence <<n>>.
None == <<>>
Some(n) == <<n>>

\* A sum that counts an absent side as zero.
OptAddDefaultingZero(x, y) ==
    Some((IF x = None THEN 0 ELSE x[1]) + (IF y = None THEN 0 ELSE y[1]))

\* Sum of two optional counters: a side that is None makes the sum None.
OptAdd(x, y) == IF x = None \/ y = None THEN None ELSE Some(x[1] + y[1])

CountFields == {"sharing_instances", "selector_map_hits", "fast_rejects", "slow_rejects"}

\* A fold that keeps the newer contribution instead of adding it.
StatsReplace(s, t) == t

StatsAdd(s, t) == [f \in CountFields |-> OptAdd(s[f], t[f])]

\* The counters a strategy instruments start at zero, the others are None.
NewStatistics(alg) ==
    [f \in CountFields |->
        CASE f = "sharing_instances" -> IF alg = WithStyleSharing THEN Some(0) ELSE None
          [] f = "selector_map_hits" -> IF alg = Naive THEN None ELSE Some(0)
          [] f = "fast_rejects"      -> IF UsesBloom(alg) THEN Some(0) ELSE None
          [] f = "slow_rejects"      -> Some(0)]

\* Wall-clock durations a run may measure, in units of the first run's: a
\* later run takes as long as the first or longer.
Durations(finished) == IF finished = <<>> THEN {1} ELSE {1, 2}

VARIABLES
    doc,          \* the parsed document
    selectors,    \* the selector list of the website
    pc,           \* "idle" | "walk" | "panicked"
    algorithm,    \* strategy of the running traversal
    stack,        \* the frames of preorder_traversal, innermost last
    matches,      \* the result vector of the running traversal
    style_bloom,  \* the StyleBloom of the running traversal
    log,          \* what the running traversal did, in order
    stats,        \* the Statistics of the running traversal
    results,      \* the finished traversals of this comparison
    verdict,      \* "none" | "equal" | "different" (compare_with_naive)
    harness,      \* all_algorithms_correct: files written, flags, outcome
    peer,         \* the locals of the other worker thread while this one runs
    interner,     \* static INTERNER of intern_style_block: the interned keys
    loader,       \* the files read and what loading has made of them so far
    cells         \* the elements whose OnceCell of id and classes is filled

vars == <<doc, selectors, pc, algorithm, stack, matches, style_bloom, log, stats,
          results, verdict, harness, peer, interner, loader, cells>>

\* The style attribute of an element: the documents here carry none, and
\* Element::new interns the empty text for such an element.
StyleAttr(d, e) == ""

\* intern_style_block: the entry of the text is returned, and inserted first
\* when the map has none.
intern_style_block(map, style_attr) == map \cup {style_attr}

\* The interner after a document is parsed: Element::new interns the style
\* attribute of every element.
Interned(map, d) ==
    UNION ({map} \cup { intern_style_block(map, StyleAttr(d, e)) :
                           e \in { i \in 1..d.n : IsElement(d, i) } })

\* No other worker thread.
NoPeer == [pc |-> "absent"]

\* The website is loaded: nothing is left to read.
NoLoader == [stage |-> "done"]

\* Element::new: `id: OnceCell::new(), classes: OnceCell::new()` for every
\* element of a parsed document.
NoCells == {}

\* all_algorithms_correct before its first comparison: the failure folders
\* are clean, no flag is set.
NewHarness ==
    [website |-> 1, compared |-> 0, flags |-> {}, files |-> {}, io |-> "none",
     returned |-> "none", outcome |-> "running"]

\* A frame of preorder_traversal: its element, its depth argument and the
\* position of its loop over the children.
Frame(e, depth) == [element |-> e, element_depth |-> depth, next |-> 1]

Init ==
    /\ doc \in Docs
    /\ selectors \in SelectorLists
    /\ pc = "idle"
    /\ algorithm = "none"
    /\ stack = <<>>
    /\ matches = <<>>
    /\ style_bloom = NewStyleBloom
    /\ log = <<>>
    /\ stats = NewStatistics(Naive)
    /\ results = <<>>
    /\ verdict = "none"
    /\ harness = NewHarness
    /\ peer = NoPeer
    /\ interner = Interned({}, doc)
    /\ loader = NoLoader
    /\ cells = NoCells

\* The harness runs Naive and then a strategy (compare_with_naive), or the
\* same strategy twice (statistics_dont_change).
MayRun(alg) ==
    IF results = <<>> THEN TRUE
    ELSE results[1].algorithm = Naive \/ results[Len(results)].algorithm = alg

Event(op, e) == [op |-> op, element |-> e]

\* A matching step that appends to a collection it has already filled.
matched_selectors_twice(alg, e, sb) ==
    LET found == IF alg = Naive
                 THEN SelectSeq(selectors,
                                LAMBDA s : matches_selector(doc, s, FALSE, e, NoFilter))
                 ELSE get_all_matching_rules(doc, build_selector_map(selectors), e,
                          IF UsesBloom(alg) THEN SomeFilter(sb.filter) ELSE NoFilter)
    IN found \o found

\* A Naive filter that stops at the first selector that matches.
matched_selectors_first_only(alg, e, sb) ==
    LET found == IF alg = Naive
                 THEN SelectSeq(selectors,
                                LAMBDA s : matches_selector(doc, s, FALSE, e, NoFilter))
                 ELSE get_all_matching_rules(doc, build_selector_map(selectors), e,
                          IF UsesBloom(alg) THEN SomeFilter(sb.filter) ELSE NoFilter)
    IN IF alg = Naive /\ found # <<>> THEN <<Head(found)>> ELSE found

\* The selectors found for an element by each strategy.
matched_selectors(alg, e, sb) ==
    IF alg = Naive
    THEN SelectSeq(selectors, LAMBDA s : matches_selector(doc, s, FALSE, e, NoFilter))
    ELSE get_all_matching_rules(doc, build_selector_map(selectors), e,
                                IF UsesBloom(alg) THEN SomeFilter(sb.filter) ELSE NoFilter)

\* The rules or selectors a strategy tests against an element.
Candidates(alg, e) ==
    IF alg = Naive THEN selectors
    ELSE LET bucket == build_selector_map(selectors)[doc.kind[e]]
         IN [i \in 1..Len(bucket) |-> bucket[i].selector]

\* The contribution of one element to the Statistics of a strategy.
CandidateStatistics(alg, e, bloom, cands) ==
    LET fast(s) == fast_rejected(s, alg # Naive, bloom)
        slow(s) == ~fast(s) /\ ~matches_complex_selector(doc, e, s, 1)
    IN [f \in CountFields |->
          CASE f = "sharing_instances" -> IF alg = WithStyleSharing THEN Some(0) ELSE None
            [] f = "selector_map_hits" -> IF alg = Naive THEN None ELSE Some(Len(cands))
            [] f = "fast_rejects"      -> IF UsesBloom(alg) THEN Some(Len(SelectSeq(cands, fast)))
                                          ELSE None
            [] f = "slow_rejects"      -> Some(Len(SelectSeq(cands, slow)))]

ElementStatistics(alg, e, sb) ==
    CandidateStatistics(alg, e, IF UsesBloom(alg) THEN SomeFilter(sb.filter) ELSE NoFilter,
                        Candidates(alg, e))

\* A body that queries the selector map before it synchronizes the filter.
BodyEventsQueryFirst(alg, e) ==
    (IF alg = Naive THEN <<Event("match_all", e)>> ELSE <<Event("query_map", e)>>)
    \o (IF UsesBloom(alg) THEN <<Event("bloom_sync", e)>> ELSE <<>>)
    \o (IF alg = WithStyleSharing THEN <<Event("sharing_target", e)>> ELSE <<>>)
    \o <<Event("record", e)>>

\* What the body of preorder_traversal does for an element, in order.
BodyEvents(alg, e) ==
    (IF UsesBloom(alg) THEN <<Event("bloom_sync", e)>> ELSE <<>>)
    \o (IF alg = WithStyleSharing THEN <<Event("sharing_target", e)>> ELSE <<>>)
    \o (IF alg = Naive THEN <<Event("match_all", e)>> ELSE <<Event("query_map", e)>>)
    \o <<Event("record", e)>>

\* A lookup that fills the cell of the element and empties the others.
FillCellsForgetting(alg, e, filled) == IF alg = Naive THEN filled ELSE {e}

\* Element::id_atom and Element::classes_atom: get_or_init fills the cell of
\* the element on the first lookup. The selector map looks the id and the
\* classes up (RuleCollector for ElementRef: id, each_class), and so does the
\* has_id test of the bloom-filter and style-sharing traversals; matching a
\* selector of tags alone looks neither up.
FillCells(alg, e, filled) == IF alg = Naive THEN filled ELSE filled \cup {e}

\* The body of preorder_traversal up to the push of the element's matches:
\* the bloom filter is synchronized (bloom and style-sharing strategies), the
\* selectors are matched and the outcome is recorded.
Recorded(alg, e, synced, ms, st) ==
    IF synced.poisoned
    THEN [style_bloom |-> synced, matches |-> ms, stats |-> st,
          events |-> <<Event("bloom_sync", e)>>, cells |-> cells, panicked |-> TRUE]
    ELSE [style_bloom |-> synced,
          matches |-> Append(ms, ElementMatches(doc, e,
                                     Selectors(matched_selectors(alg, e, synced)))),
          stats |-> StatsAdd(st, ElementStatistics(alg, e, synced)),
          events |-> BodyEvents(alg, e),
          cells |-> FillCells(alg, e, cells),
          panicked |-> FALSE]

\* A body that builds the matching context without synchronizing the filter.
BodyWithoutSync(alg, e, depth, sb, ms, st) == Recorded(alg, e, sb, ms, st)

Body(alg, e, depth, sb, ms, st) ==
    Recorded(alg, e,
             IF UsesBloom(alg) THEN insert_parents_recovering(doc, sb, e, depth) ELSE sb,
             ms, st)

\* A result vector that outlives the traversal that filled it.
KeptMatches == matches

\* `let mut result = Vec::new()`: every traversal fills a vector of its own.
NewMatches == <<>>

\* The call preorder_traversal(document.root_element(), 0, ...) up to the
\* push of the root's matches.
Start(alg) ==
    /\ pc = "idle"
    /\ Len(results) < NumRuns
    /\ MayRun(alg)
    /\ \E done \in {Body(alg, root_element(doc), 0, NewStyleBloom, NewMatches,
                          NewStatistics(alg))} :
          /\ algorithm' = alg
          /\ stack' = <<Frame(root_element(doc), 0)>>
          /\ matches' = done.matches
          /\ style_bloom' = done.style_bloom
          /\ stats' = done.stats
          /\ log' = done.events
          /\ pc' = IF done.panicked THEN "panicked" ELSE "walk"
          /\ cells' = done.cells
    /\ UNCHANGED <<doc, selectors, results, verdict, harness, peer, interner, loader>>

\* A loop that leaves out the first child element.
LoopChildrenSkippingFirst(e) ==
    SubSeq(child_elements(doc, e), 2, Len(child_elements(doc, e)))

\* A loop that takes the child elements last to first.
LoopChildrenReversed(e) ==
    [i \in 1..Len(child_elements(doc, e)) |->
        child_elements(doc, e)[Len(child_elements(doc, e)) + 1 - i]]

\* `for child in element.child_elements()`.
LoopChildren(e) == child_elements(doc, e)

\* A recursive call that hands its own depth to the child.
SameDepth(element_depth) == element_depth

\* A recursive call that counts the child twice.
DepthPlusTwo(element_depth) == element_depth + 2

\* The depth handed to the recursive call for a child.
ChildDepth(element_depth) == element_depth + 1

\* A frame whose loop over the children is over returns to its caller.
Exhausted(frame) == frame.next > Len(LoopChildren(frame.element))

RECURSIVE Unwind(_)
\* The stack once every innermost finished frame has returned.
Unwind(stk) ==
    IF stk = <<>> THEN stk
    ELSE IF Exhausted(stk[Len(stk)]) THEN Unwind(SubSeq(stk, 1, Len(stk) - 1))
    ELSE stk

\* The return events of the frames that Unwind pops, innermost first.
ReturnEvents(stk) ==
    [i \in 1..(Len(stk) - Len(Unwind(stk))) |-> Event("return", stk[Len(stk) + 1 - i].element)]

\* A loop that recurses without looking at the child's traversal parent.
ParentCheckSkipped(alg, element, child) == [events |-> <<>>, mismatch |-> FALSE]

\* `if child.traversal_parent().unwrap() != element { panic!(..) }`: only the
\* bloom-filter and style-sharing traversals have it.
ParentCheck(alg, element, child) ==
    IF UsesBloom(alg)
    THEN [events |-> <<Event("parent_check", child)>>,
          mismatch |-> traversal_parent(doc, child) # element]
    ELSE [events |-> <<>>, mismatch |-> FALSE]

\* The next iteration of a loop over children: the frames that are finished
\* return, the innermost unfinished frame takes its next child, the bloom and
\* style-sharing traversals check that the child's traversal parent is the
\* frame's element, and the recursive call runs its body for the child.
Visit ==
    /\ pc = "walk"
    /\ Unwind(stack) # <<>>
    /\ \E stk \in {Unwind(stack)} : \E top \in {stk[Len(stk)]} :
       \E child \in {LoopChildren(top.element)[top.next]} :
       \E done \in {Body(algorithm, child, ChildDepth(top.element_depth),
                        style_bloom, matches, stats)} :
       \E checked \in {ParentCheck(algorithm, top.element, child)} :
          IF checked.mismatch
          THEN /\ pc' = "panicked"
               /\ stack' = stk
               /\ log' = log \o ReturnEvents(stack) \o checked.events
               /\ UNCHANGED <<matches, style_bloom, stats, cells>>
          ELSE /\ stack' = Append([stk EXCEPT ![Len(stk)].next = @ + 1],
                                  Frame(child, ChildDepth(top.element_depth)))
               /\ matches' = done.matches
               /\ style_bloom' = done.style_bloom
               /\ stats' = done.stats
               /\ log' = log \o ReturnEvents(stack) \o checked.events
                             \o <<Event("recurse", child)>> \o done.events
               /\ pc' = IF done.panicked THEN "panicked" ELSE "walk"
               /\ cells' = done.cells
    /\ UNCHANGED <<doc, selectors, algorithm, results, verdict, harness, peer, interner, loader>>

\* Every frame has returned: the traversal hands back its result vector.
Finish ==
    /\ pc = "walk"
    /\ Unwind(stack) = <<>>
    /\ stack' = <<>>
    /\ log' = log \o ReturnEvents(stack)
    /\ \E t \in Durations(results) :
          results' = Append(results,
              [algorithm |-> algorithm, matches |-> matches, stats |-> stats,
               time_spent_slow_rejecting |-> t])
    /\ pc' = "idle"
    /\ UNCHANGED <<doc, selectors, algorithm, matches, style_bloom, stats, verdict,
                   harness, peer, interner, loader, cells>>

\* ------------------------------------------------------------------------
\* Canonical results (structs.rs, mod set and mod ser)
\* ------------------------------------------------------------------------
Range(seq) == { seq[i] : i \in 1..Len(seq) }

\* A conversion that keeps the selector texts as the list they came in.
SetSelectorsKeepingList(outcome) ==
    IF outcome.kind = "Selectors"
    THEN [kind |-> "Selectors",
          selectors |-> [i \in 1..Len(outcome.selectors) |-> to_css_string(outcome.selectors[i])]]
    ELSE outcome

\* From<OwnedSelectorsOrSharedStyles> for SetSelectorsOrSharedStyles
SetSelectorsFrom(outcome) ==
    IF outcome.kind = "Selectors"
    THEN [kind |-> "Selectors",
          selectors |-> { to_css_string(outcome.selectors[i]) : i \in 1..Len(outcome.selectors) }]
    ELSE outcome

\* From<OwnedElementMatches> for SetElementMatches
SetElementMatchesFrom(oem) ==
    [element |-> oem.element, selectors |-> SetSelectorsFrom(oem.selectors)]

\* From<OwnedDocumentMatches> for SetDocumentMatches: a map keyed by element
\* id; collecting keeps the last entry of a key.
SetDocumentMatchesFrom(v) ==
    [k \in { v[i].element.id : i \in 1..Len(v) } |->
        LET last == CHOOSE i \in 1..Len(v) :
                        /\ v[i].element.id = k
                        /\ \A j \in 1..Len(v) : v[j].element.id = k => j <= i
        IN SetElementMatchesFrom(v[last])]

RECURSIVE find_selectors_following(_, _, _)
\* A lookup whose Selectors arm recurses on the same id instead of returning.
find_selectors_following(set, id, links) ==
    IF id \notin DOMAIN set THEN [status |-> "missing", links |-> links, selectors |-> {}]
    ELSE IF links >= Cardinality(DOMAIN set)
         THEN [status |-> "loop", links |-> links, selectors |-> {}]
    ELSE find_selectors_following(set,
             IF set[id].selectors.kind = "Selectors" THEN id ELSE set[id].selectors.id,
             links + 1)

RECURSIVE find_selectors_from(_, _, _)
\* SetDocumentMatches::find_selectors with the number of links followed so
\* far; "missing" is the unwrap of an absent key, "loop" a chain that has
\* followed more links than the map has entries.
find_selectors_from(set, id, links) ==
    IF id \notin DOMAIN set THEN [status |-> "missing", links |-> links, selectors |-> {}]
    ELSE IF set[id].selectors.kind = "Selectors"
         THEN [status |-> "ok", links |-> links, selectors |-> set[id].selectors.selectors]
    ELSE IF links >= Cardinality(DOMAIN set)
         THEN [status |-> "loop", links |-> links, selectors |-> {}]
    ELSE find_selectors_from(set, set[id].selectors.id, links + 1)

find_selectors(set, id) == find_selectors_from(set, id, 0)

\* A conversion that takes the selectors an entry holds itself and follows
\* no reference.
SerDocumentMatchesOwnOnly(set) ==
    [k \in DOMAIN set |->
        [html |-> set[k].element.html,
         selectors |-> IF set[k].selectors.kind = "Selectors"
                       THEN set[k].selectors.selectors ELSE {}]]

\* From<SetDocumentMatches> for SerDocumentMatches
SerDocumentMatchesFrom(set) ==
    [k \in DOMAIN set |->
        [html |-> set[k].element.html, selectors |-> find_selectors(set, k).selectors]]

Canonical(v) == SerDocumentMatchesFrom(SetDocumentMatchesFrom(v))

\* ------------------------------------------------------------------------
\* The comparison (tests/websites_suite.rs)
\* ------------------------------------------------------------------------
\* What the file system and the serializer may answer while a mismatch is
\* written out: success, a failing create_dir_all, a failing File::create for
\* the first or for the second file, a failing serde_yml::to_writer.
IoOutcomes ==
    {"ok", "dir_error", "file_error", "second_file_error", "yaml_error", "second_yaml_error"}

\* A file {website}.{algorithm}.yaml in the failure folder of a strategy.
YamlFile(folder, website, alg) == [folder |-> folder, website |-> website, algorithm |-> alg]

\* The two files compare_with_naive writes for a mismatch.
YamlFiles(folder, website) == {YamlFile(folder, website, Naive), YamlFile(folder, website, folder)}

\* A report that writes out the result of Naive only.
ReportNaiveOnly(h, alg, equal, io) ==
    IF equal THEN [h EXCEPT !.returned = "true"]
    ELSE [h EXCEPT !.files = @ \cup {YamlFile(alg, h.website, Naive)}, !.io = io,
                   !.returned = "false"]

\* compare_with_naive from the comparison on: Ok(true) when the results are
\* equal; otherwise both results are written below the failure folder of the
\* strategy and the answer is Ok(false), unless creating the folder or a file
\* fails (the error is returned) or serializing fails (unwrap panics).
Report(h, alg, equal, io) ==
    IF equal THEN [h EXCEPT !.returned = "true"]
    ELSE CASE io = "ok" ->
                [h EXCEPT !.files = @ \cup YamlFiles(alg, h.website),
                          !.io = io, !.returned = "false"]
           [] io = "dir_error" ->
                [h EXCEPT !.io = io, !.returned = "err", !.outcome = "error"]
           [] io = "file_error" ->
                [h EXCEPT !.io = io, !.returned = "err", !.outcome = "error"]
           [] io = "second_file_error" ->
                [h EXCEPT !.files = @ \cup {YamlFile(alg, h.website, Naive)},
                          !.io = io, !.returned = "err", !.outcome = "error"]
           [] io = "yaml_error" ->
                [h EXCEPT !.files = @ \cup {YamlFile(alg, h.website, Naive)},
                          !.io = io, !.returned = "panic", !.outcome = "panicked"]
           [] io = "second_yaml_error" ->
                [h EXCEPT !.files = @ \cup YamlFiles(alg, h.website),
                          !.io = io, !.returned = "panic", !.outcome = "panicked"]

\* compare_with_naive: the two canonical results are compared and a mismatch
\* is written out.
Compare ==
    /\ pc = "idle"
    /\ Len(results) = NumRuns
    /\ verdict = "none"
    /\ harness.outcome = "running"
    /\ \E equal \in {Canonical(results[1].matches) = Canonical(results[NumRuns].matches)} :
       \E io \in IoOutcomes :
          /\ verdict' = IF equal THEN "equal" ELSE "different"
          /\ harness' = Report(harness, results[NumRuns].algorithm, equal, io)
    /\ UNCHANGED <<doc, selectors, pc, algorithm, stack, matches, style_bloom, log, stats,
                   results, peer, interner, loader, cells>>

Next ==
    \/ \E alg \in Algorithms : Start(alg)
    \/ Visit
    \/ Finish
    \/ Compare

Spec == Init /\ [][Next]_vars

\* ------------------------------------------------------------------------
\* One call of do_website
\* ------------------------------------------------------------------------
\* do_website: one traversal of the website with a strategy.
DoWebsite ==
    /\ results = <<>>
    /\ \E alg \in Algorithms : Start(alg)

TraversalNext ==
    \/ DoWebsite
    \/ Visit
    \/ Finish

TraversalSpec == Init /\ [][TraversalNext]_vars

\* One do_website call on any document with at most one selector.
TerminationInit == Init /\ Len(selectors) <= 1

\* The traversal is one sequential call: while it has a step to take it
\* takes it.
TerminationSpec ==
    /\ TerminationInit
    /\ [][TraversalNext]_vars
    /\ WF_vars(Visit)
    /\ WF_vars(Finish)

\* ------------------------------------------------------------------------
\* all_algorithms_correct (tests/websites_suite.rs)
\* ------------------------------------------------------------------------
\* The strategy of the test's list whose traversal is not among the
\* traversals above; its result may be any result for the document.
UnknownStrategy == "Mach7"

\* The strategies compared with Naive, in the order of the test.
HarnessAlgorithms == <<WithSelectorMap, WithBloomFilter, WithStyleSharing, UnknownStrategy>>

\* The websites of the test, by name; they hold the same document and the
\* same selectors, and the closures of the parallel iterator run one after
\* the other.
Websites == <<"first", "second">>

\* The documents of the harness specification.
HarnessDocs == { d \in Docs : d.n < MaxNodes }

\* The outcomes the unknown strategy may record for the i-th element, given
\* Naive's result: Naive's selectors as they are, reversed or repeated, no
\* selectors at all, or a reference to an earlier element.
OutcomeOptions(naive, i) ==
    {Selectors(naive[i].selectors.selectors),
     Selectors([k \in 1..Len(naive[i].selectors.selectors) |->
         naive[i].selectors.selectors[Len(naive[i].selectors.selectors) + 1 - k]]),
     Selectors(naive[i].selectors.selectors \o naive[i].selectors.selectors),
     Selectors(<<>>)}
    \cup { SharedWithElement(naive[j].element.id) : j \in 1..(i - 1) }

\* The results the unknown strategy may return for the document.
Variants(naive) ==
    { [i \in 1..Len(naive) |-> [element |-> naive[i].element, selectors |-> outcome[i]]] :
        outcome \in { o \in [1..Len(naive) ->
                               UNION { OutcomeOptions(naive, i) : i \in 1..Len(naive) }] :
                          \A i \in 1..Len(naive) : o[i] \in OutcomeOptions(naive, i) } }

HarnessInit ==
    /\ Init
    /\ doc \in HarnessDocs

\* The next traversal of the loop over the strategies: Naive, then the
\* strategy under comparison.
HarnessStart ==
    /\ harness.outcome = "running"
    /\ harness.compared < Len(HarnessAlgorithms)
    /\ verdict = "none"
    /\ IF results = <<>> THEN Start(Naive)
       ELSE /\ HarnessAlgorithms[harness.compared + 1] # UnknownStrategy
            /\ Start(HarnessAlgorithms[harness.compared + 1])

\* do_website for the strategy whose traversal is unknown.
RunUnknown ==
    /\ pc = "idle"
    /\ harness.outcome = "running"
    /\ harness.compared < Len(HarnessAlgorithms)
    /\ HarnessAlgorithms[harness.compared + 1] = UnknownStrategy
    /\ Len(results) = 1
    /\ \E v \in Variants(results[1].matches) :
          results' = Append(results,
              [algorithm |-> UnknownStrategy, matches |-> v,
               stats |-> NewStatistics(WithStyleSharing), time_spent_slow_rejecting |-> 1])
    /\ UNCHANGED <<doc, selectors, pc, algorithm, stack, matches, style_bloom, log, stats,
                   verdict, harness, peer, interner, loader, cells>>

\* `if !compare_with_naive(..)? { flag.store(true, ..) }` and the step to the
\* next strategy of the loop.
FlagAndAdvance(h, alg) ==
    [h EXCEPT !.flags = IF h.returned = "false" THEN @ \cup {alg} ELSE @,
              !.compared = @ + 1]

NextComparison ==
    /\ verdict # "none"
    /\ harness.outcome = "running"
    /\ harness' = FlagAndAdvance(harness, results[NumRuns].algorithm)
    /\ results' = <<>>
    /\ verdict' = "none"
    /\ UNCHANGED <<doc, selectors, pc, algorithm, stack, matches, style_bloom, log, stats,
                   peer, interner, loader, cells>>

\* The closure of a website returns Ok(()) and the next website is taken.
NextWebsite ==
    /\ harness.outcome = "running"
    /\ harness.compared = Len(HarnessAlgorithms)
    /\ harness.website < Len(Websites)
    /\ harness' = [harness EXCEPT !.website = @ + 1, !.compared = 0]
    /\ cells' = NoCells
    /\ UNCHANGED <<doc, selectors, pc, algorithm, stack, matches, style_bloom, log, stats,
                   results, verdict, peer, interner, loader>>

\* After all websites: the test panics when a flag is set.
Conclude ==
    /\ harness.outcome = "running"
    /\ harness.compared = Len(HarnessAlgorithms)
    /\ harness.website = Len(Websites)
    /\ harness' = [harness EXCEPT !.outcome = IF harness.flags # {} THEN "failed"
                                              ELSE "passed"]
    /\ UNCHANGED <<doc, selectors, pc, algorithm, stack, matches, style_bloom, log, stats,
                   results, verdict, peer, interner, loader, cells>>

HarnessNext ==
    \/ HarnessStart
    \/ Visit
    \/ Finish
    \/ RunUnknown
    \/ Compare
    \/ NextComparison
    \/ NextWebsite
    \/ Conclude

HarnessSpec == HarnessInit /\ [][HarnessNext]_vars

\* ------------------------------------------------------------------------
\* Two closures of the parallel iterator (tests/websites_suite.rs, 68-80)
\* ------------------------------------------------------------------------
\* Each worker thread parses its website and runs one traversal of it. The
\* variables of the traversal hold the locals of the thread that runs; the
\* locals of the other thread rest in peer; the scheduler may switch between
\* two steps. The interner is the static both threads reach.

\* The documents of two websites that are parsed and traversed in parallel.
ParallelDocs == { d \in Docs : d.n + 1 < MaxNodes /\ \A i \in 2..d.n : IsElement(d, i) }

\* The locals of a worker thread before it has parsed its website.
Unparsed(d, sels) ==
    [doc |-> d, selectors |-> sels, pc |-> "unparsed", algorithm |-> "none",
     stack |-> <<>>, matches |-> <<>>, style_bloom |-> NewStyleBloom, log |-> <<>>,
     stats |-> NewStatistics(Naive), results |-> <<>>, cells |-> NoCells]

\* The locals of the thread that runs.
Locals ==
    [doc |-> doc, selectors |-> selectors, pc |-> pc, algorithm |-> algorithm,
     stack |-> stack, matches |-> matches, style_bloom |-> style_bloom, log |-> log,
     stats |-> stats, results |-> results, cells |-> cells]

ParallelInit ==
    /\ \E d \in ParallelDocs : \E sels \in SelectorLists :
          /\ doc = d
          /\ selectors = sels
          /\ pc = "unparsed"
          /\ algorithm = "none"
          /\ stack = <<>>
          /\ matches = <<>>
          /\ style_bloom = NewStyleBloom
          /\ log = <<>>
          /\ stats = NewStatistics(Naive)
          /\ results = <<>>
          /\ peer \in { Unparsed(other, sels) : other \in ParallelDocs }
    /\ verdict = "none"
    /\ harness = NewHarness
    /\ interner = {}
    /\ loader = NoLoader
    /\ cells = NoCells

\* get_document_and_selectors: the website is parsed; every element built
\* interns its style attribute.
Parse ==
    /\ pc = "unparsed"
    /\ pc' = "idle"
    /\ interner' = Interned(interner, doc)
    /\ UNCHANGED <<doc, selectors, algorithm, stack, matches, style_bloom, log, stats,
                   results, verdict, harness, peer, loader, cells>>

\* A filter that is one static for all threads instead of a local.
SharedBloom(ctx) == style_bloom

\* `let mut bloom_filter = StyleBloom::new()`: the filter is a local of the
\* traversal, so a thread resumes with the filter it left.
OwnedBloom(ctx) == ctx.style_bloom

\* The scheduler lets the other thread run: the locals of this thread rest,
\* those of the other thread are taken up; the static stays in place.
Switch ==
    /\ peer # NoPeer
    /\ peer' = Locals
    /\ doc' = peer.doc
    /\ selectors' = peer.selectors
    /\ pc' = peer.pc
    /\ algorithm' = peer.algorithm
    /\ stack' = peer.stack
    /\ matches' = peer.matches
    /\ style_bloom' = OwnedBloom(peer)
    /\ log' = peer.log
    /\ stats' = peer.stats
    /\ results' = peer.results
    /\ cells' = peer.cells
    /\ UNCHANGED <<verdict, harness, interner, loader>>

ParallelNext ==
    \/ Parse
    \/ DoWebsite
    \/ Visit
    \/ Finish
    \/ Switch

ParallelSpec == ParallelInit /\ [][ParallelNext]_vars

\* ------------------------------------------------------------------------
\* Loading the selectors of a stylesheet (parse.rs, parse/cssparser.rs)
\* ------------------------------------------------------------------------
\* The most rules of a stylesheet.
MaxRules == 2

\* The text of a complex selector, as its tokens: "b b", "html > b",
\* "b:empty" and the malformed "b >".
TextBDescB == <<"b", " ", "b">>
TextHtmlChildB == <<"html", ">", "b">>
TextBEmpty == <<"b", ":empty">>
TextDangling == <<"b", ">">>

CombinatorTokens == {" ", ">"}
PseudoClassTokens == {":empty"}
TagTokens == {"html", "a", "b"}

\* A rule of a stylesheet: an at-rule, or a qualified rule with the selector
\* texts of its prelude, which commas separate.
AtRule == [at |-> TRUE, prelude |-> <<>>]
QualifiedRule(texts) == [at |-> FALSE, prelude |-> texts]

RulePool ==
    {AtRule,
     QualifiedRule(<<TextBDescB>>),
     QualifiedRule(<<TextHtmlChildB, TextBDescB>>),
     QualifiedRule(<<TextBEmpty>>),
     QualifiedRule(<<TextBDescB, TextBEmpty>>),
     QualifiedRule(<<TextDangling>>),
     QualifiedRule(<<TextBDescB, TextDangling>>)}

Stylesheets == UNION { [1..k -> RulePool] : k \in 0..MaxRules }

\* A compound selector with a pseudo-class.
PseudoCompound(tag, pseudo, comb) == [tag |-> tag, comb |-> comb, pseudo |-> pseudo]

RECURSIVE ParseCompounds(_, _, _)
\* The compounds of a selector text from token i on, leftmost first, each
\* with the combinator that follows it; <<>> when the text is malformed.
ParseCompounds(tokens, i, left) ==
    IF i > Len(tokens) \/ tokens[i] \notin TagTokens THEN <<>>
    ELSE LET pseudo == i < Len(tokens) /\ tokens[i + 1] \in PseudoClassTokens
             after == IF pseudo THEN i + 2 ELSE i + 1
             item(comb) == [tag |-> tokens[i],
                            pseudo |-> IF pseudo THEN <<tokens[i + 1]>> ELSE <<>>,
                            next |-> comb]
         IN IF after > Len(tokens) THEN <<Append(left, item("none"))>>
            ELSE IF tokens[after] \in CombinatorTokens
                 THEN ParseCompounds(tokens, after + 1,
                          Append(left, item(IF tokens[after] = ">" THEN "child"
                                            ELSE "descendant")))
            ELSE <<>>

\* The parse of one complex selector: None for a malformed text, else the
\* selector, rightmost compound first, each compound with the combinator
\* that links it to its left.
parse_complex_selector(tokens) ==
    LET parsed == ParseCompounds(tokens, 1, <<>>)
    IN IF parsed = <<>> THEN None
       ELSE LET items == parsed[1]
                n == Len(items)
            IN Some([k \in 1..n |->
                   LET it == items[n + 1 - k]
                       comb == IF k = n THEN "none" ELSE items[n - k].next
                   IN IF it.pseudo = <<>> THEN Compound(it.tag, comb)
                      ELSE PseudoCompound(it.tag, it.pseudo[1], comb)])

\* Selector::parse of the prelude of a rule: the list of its selectors, or an
\* error when one of them is malformed.
ParseSelectorList(texts) ==
    IF \E i \in 1..Len(texts) : parse_complex_selector(texts[i]) = None
    THEN [status |-> "err", selector |-> None]
    ELSE [status |-> "ok",
          selector |-> Some([i \in 1..Len(texts) |-> parse_complex_selector(texts[i])[1]])]

\* What the StyleSheetParser yields for a rule: Ok(None) for an at-rule,
\* Ok(Some(selector list)) or the error of the prelude for a qualified rule.
ParseRuleResult(rule) ==
    IF rule.at THEN [status |-> "ok", selector |-> None]
    ELSE ParseSelectorList(rule.prelude)

\* selector_has_pseudo_class
selector_has_pseudo_class(sel) == \E i \in 1..Len(sel) : "pseudo" \in DOMAIN sel[i]

RECURSIVE Flatten(_)
Flatten(seqs) == IF seqs = <<>> THEN <<>> ELSE Head(seqs) \o Flatten(Tail(seqs))

\* A parse_stylesheet that gives up at the first rule that failed to parse.
parse_stylesheet_until_error(rules) ==
    LET firstErr == IF \E i \in 1..Len(rules) : rules[i].status = "err"
                    THEN CHOOSE i \in 1..Len(rules) :
                             /\ rules[i].status = "err"
                             /\ \A j \in 1..(i - 1) : rules[j].status = "ok"
                    ELSE Len(rules) + 1
        kept == SubSeq(rules, 1, firstErr - 1)
    IN SelectSeq(
           Flatten([i \in 1..Len(kept) |->
               IF kept[i].selector = None THEN <<>> ELSE kept[i].selector[1]]),
           LAMBDA sel : ~selector_has_pseudo_class(sel))

\* parse_stylesheet: the selectors of the rules that yielded Ok(Some(..)),
\* in order, without those that hold a pseudo-class.
parse_stylesheet(rules) ==
    SelectSeq(
        Flatten([i \in 1..Len(rules) |->
            IF rules[i].status = "ok" /\ rules[i].selector # None
            THEN rules[i].selector[1] ELSE <<>>]),
        LAMBDA sel : ~selector_has_pseudo_class(sel))

StylesheetInit ==
    /\ doc \in { d \in Docs : d.n = 2 }
    /\ selectors = <<>>
    /\ pc = "idle"
    /\ algorithm = "none"
    /\ stack = <<>>
    /\ matches = <<>>
    /\ style_bloom = NewStyleBloom
    /\ log = <<>>
    /\ stats = NewStatistics(Naive)
    /\ results = <<>>
    /\ verdict = "none"
    /\ harness = NewHarness
    /\ peer = NoPeer
    /\ interner = Interned({}, doc)
    /\ loader \in { [stage |-> "parsing", css |-> css, rules |-> <<>>] : css \in Stylesheets }
    /\ cells = NoCells

\* get_all_selectors: the StyleSheetParser yields the result of the next
\* rule and goes on, whatever the result.
ParseRule ==
    /\ loader.stage = "parsing"
    /\ Len(loader.rules) < Len(loader.css)
    /\ loader' = [loader EXCEPT
                    !.rules = Append(@, ParseRuleResult(loader.css[Len(loader.rules) + 1]))]
    /\ UNCHANGED <<doc, selectors, pc, algorithm, stack, matches, style_bloom, log, stats,
                   results, verdict, harness, peer, interner, cells>>

\* parse_stylesheet on the collected results; get_document_and_selectors
\* hands the selectors to the traversal.
CollectSelectors ==
    /\ loader.stage = "parsing"
    /\ Len(loader.rules) = Len(loader.css)
    /\ selectors' = parse_stylesheet(loader.rules)
    /\ loader' = [loader EXCEPT !.stage = "loaded"]
    /\ UNCHANGED <<doc, pc, algorithm, stack, matches, style_bloom, log, stats,
                   results, verdict, harness, peer, interner, cells>>

StylesheetNext ==
    \/ ParseRule
    \/ CollectSelectors

StylesheetSpec == StylesheetInit /\ [][StylesheetNext]_vars

\* ------------------------------------------------------------------------
\* Finding the websites of a directory (lib.rs, parse.rs)
\* ------------------------------------------------------------------------
\* The entries of the websites directory.
NumEntries == 10
\* The most entries of a website directory.
MaxFiles == 2

\* An entry of a website directory: a regular file or a subdirectory.
DirEntry(name, extension, is_file) ==
    [name |-> name, extension |-> extension, is_file |-> is_file]

DirEntryPool ==
    {DirEntry("1", "html", TRUE), DirEntry("2", "html", TRUE),
     DirEntry("style", "css", TRUE), DirEntry("index", "html", FALSE)}

\* What a website directory may hold.
WebsiteContents == { c \in SUBSET DirEntryPool : Cardinality(c) <= MaxFiles }

\* The entries get_main_html keeps: regular files with extension html.
HtmlFiles(content) == { f \in content : f.is_file /\ f.extension = "html" }

\* A get_main_html that takes every entry with extension html.
get_main_html_by_extension(content, listed) ==
    LET found == { f \in content : f.extension = "html" }
    IN IF ~listed THEN [status |-> "err", kind |-> "Io", file |-> None]
       ELSE IF Cardinality(found) = 0 THEN [status |-> "ok", kind |-> "none", file |-> None]
       ELSE IF Cardinality(found) = 1
            THEN [status |-> "ok", kind |-> "none", file |-> Some(CHOOSE f \in found : TRUE)]
       ELSE [status |-> "err", kind |-> "MultipleHtmlFiles", file |-> None]

\* get_main_html: the one regular html file of a website directory, None
\* when it has none, an error when it has several or cannot be listed.
get_main_html(content, listed) ==
    LET found == HtmlFiles(content)
    IN IF ~listed THEN [status |-> "err", kind |-> "Io", file |-> None]
       ELSE IF Cardinality(found) = 0 THEN [status |-> "ok", kind |-> "none", file |-> None]
       ELSE IF Cardinality(found) = 1
            THEN [status |-> "ok", kind |-> "none", file |-> Some(CHOOSE f \in found : TRUE)]
       ELSE [status |-> "err", kind |-> "MultipleHtmlFiles", file |-> None]

\* parse_website: get_main_html, then parse_main_html reads the file.
\* "none" for Ok(None), "html" for Ok(Some(html)), "err" for an error.
parse_website(content, listed, readable) ==
    LET main == get_main_html(content, listed)
    IN IF main.status = "err" THEN "err"
       ELSE IF main.file = None THEN "none"
       ELSE IF readable THEN "html" ELSE "err"

\* What the iterator of do_all_websites yields for an entry of the websites
\* directory: "none" for no item, "ok" for an Ok item, "err" for an Err item.
WebsiteItem(is_dir, content, listed, readable) ==
    IF ~is_dir THEN "none"
    ELSE LET html == parse_website(content, listed, readable)
         IN IF html = "html" THEN "ok" ELSE html

NewListing(is_dir) ==
    [stage |-> "opening", is_dir |-> is_dir, entries |-> 0, dirs |-> 0,
     ok |-> 0, err |-> 0, is_website_dir |-> FALSE, content |-> {},
     listed |-> FALSE, main |-> <<>>]

WebsitesInit ==
    /\ doc \in { d \in Docs : d.n = 2 }
    /\ selectors = <<>>
    /\ pc = "idle"
    /\ algorithm = "none"
    /\ stack = <<>>
    /\ matches = <<>>
    /\ style_bloom = NewStyleBloom
    /\ log = <<>>
    /\ stats = NewStatistics(Naive)
    /\ results = <<>>
    /\ verdict = "none"
    /\ harness = NewHarness
    /\ peer = NoPeer
    /\ interner = Interned({}, doc)
    /\ loader \in { NewListing(is_dir) : is_dir \in BOOLEAN }
    /\ cells = NoCells

\* do_all_websites: read_dir on the websites path, an error when it is not
\* a directory.
OpenWebsites ==
    /\ loader.stage = "opening"
    /\ loader' = [loader EXCEPT !.stage = IF loader.is_dir THEN "listing" ELSE "NotADirectory"]
    /\ UNCHANGED <<doc, selectors, pc, algorithm, stack, matches, style_bloom, log, stats,
                   results, verdict, harness, peer, interner, cells>>

\* One step of the iterator do_all_websites returned: the next entry of the
\* websites directory goes through get_websites_dirs and parse_website.
NextEntry ==
    /\ loader.stage = "listing"
    /\ loader.entries < NumEntries
    /\ \E is_website_dir \in BOOLEAN, content \in WebsiteContents,
          listed \in BOOLEAN, readable \in BOOLEAN :
          /\ ~is_website_dir => content = {} /\ listed /\ readable
          /\ ~listed => readable
          /\ \E item \in {WebsiteItem(is_website_dir, content, listed, readable)} :
                loader' = [loader EXCEPT
                    !.entries = @ + 1,
                    !.dirs = IF is_website_dir THEN @ + 1 ELSE @,
                    !.ok = IF item = "ok" THEN @ + 1 ELSE @,
                    !.err = IF item = "err" THEN @ + 1 ELSE @,
                    !.is_website_dir = is_website_dir,
                    !.content = content,
                    !.listed = listed,
                    !.main = IF is_website_dir
                             THEN <<get_main_html(content, listed)>> ELSE <<>>]
    /\ UNCHANGED <<doc, selectors, pc, algorithm, stack, matches, style_bloom, log, stats,
                   results, verdict, harness, peer, interner, cells>>

\* The iterator is exhausted: res.count() returns.
CountItems ==
    /\ loader.stage = "listing"
    /\ loader.entries = NumEntries
    /\ loader' = [loader EXCEPT !.stage = "counted"]
    /\ UNCHANGED <<doc, selectors, pc, algorithm, stack, matches, style_bloom, log, stats,
                   results, verdict, harness, peer, interner, cells>>

WebsitesNext ==
    \/ OpenWebsites
    \/ NextEntry
    \/ CountItems

WebsitesSpec == WebsitesInit /\ [][WebsitesNext]_vars

\* ------------------------------------------------------------------------
\* The parallel workers of all_algorithms_correct (tests/websites_suite.rs)
\* ------------------------------------------------------------------------
\* The most websites and the most closures that run at a time.
MaxWebsites == 2
MaxWorkers == 2

\* The strategies a website may diverge from Naive for.
DivergenceOptions ==
    { S \in SUBSET Range(HarnessAlgorithms) :
        Cardinality(S) <= 1 \/ S = Range(HarnessAlgorithms) }

\* A website directory: whether get_document_and_selectors finds a document
\* in it, and the strategies whose result differs from Naive's on it.
WebsiteInputs ==
    { [present |-> p, diverging |-> S] :
        p \in BOOLEAN, S \in DivergenceOptions } \
    { [present |-> FALSE, diverging |-> S] : S \in DivergenceOptions \ {{}} }

\* The closure of a website before a worker takes it.
PendingTask == [stage |-> "pending", compared |-> 0]

\* A store that takes the place of what the other closures stored.
flag_store_overwriting(flags, alg) == {alg}

\* flag.store(true, Ordering::Relaxed) on the AtomicBool of a strategy.
flag_store(flags, alg) == flags \cup {alg}

\* The closures a worker is running.
Running(h) == { w \in 1..MaxWebsites : h.tasks[w].stage \in {"comparing", "storing"} }

\* A closure after a comparison: the loop goes on to the next strategy or
\* the closure returns Ok(()).
Advance(task) ==
    [stage |-> IF task.compared + 1 = Len(HarnessAlgorithms) THEN "done" ELSE "comparing",
     compared |-> task.compared + 1]

WorkersInit ==
    /\ doc \in { d \in Docs : d.n = 2 }
    /\ selectors = <<>>
    /\ pc = "idle"
    /\ algorithm = "none"
    /\ stack = <<>>
    /\ matches = <<>>
    /\ style_bloom = NewStyleBloom
    /\ log = <<>>
    /\ stats = NewStatistics(Naive)
    /\ results = <<>>
    /\ verdict = "none"
    /\ harness \in { [websites |-> ws, tasks |-> [w \in 1..MaxWebsites |-> PendingTask],
                      flags |-> {}, io_error |-> FALSE, outcome |-> "running"] :
                        ws \in [1..MaxWebsites -> WebsiteInputs] }
    /\ peer = NoPeer
    /\ interner = Interned({}, doc)
    /\ loader = NoLoader
    /\ cells = NoCells

\* A worker takes a website: get_document_and_selectors fails, finds no
\* document (the closure returns Ok(())) or returns the website. Once a
\* closure has failed the pool may leave the websites not yet taken alone.
TakeWebsite ==
    /\ harness.outcome = "running"
    /\ Cardinality(Running(harness)) < MaxWorkers
    /\ \E w \in 1..MaxWebsites : \E io \in {"ok", "error"} :
          /\ harness.tasks[w].stage = "pending"
          /\ harness' = [harness EXCEPT
                !.tasks[w].stage = IF io = "error" THEN "error"
                                   ELSE IF harness.websites[w].present THEN "comparing"
                                   ELSE "done",
                !.io_error = @ \/ io = "error"]
    /\ UNCHANGED <<doc, selectors, pc, algorithm, stack, matches, style_bloom, log, stats,
                   results, verdict, peer, interner, loader, cells>>

\* compare_with_naive for the next strategy of the closure's loop: true when
\* the results are equal; when they differ the two files are written, which
\* may fail, and false is returned.
CompareWithNaive ==
    /\ harness.outcome = "running"
    /\ \E w \in Running(harness) : \E io \in {"ok", "error"} :
       \E alg \in {HarnessAlgorithms[harness.tasks[w].compared + 1]} :
          /\ harness.tasks[w].stage = "comparing"
          /\ alg \notin harness.websites[w].diverging => io = "ok"
          /\ harness' = [harness EXCEPT
                !.tasks[w] = IF io = "error" THEN [@ EXCEPT !.stage = "error"]
                             ELSE IF alg \in harness.websites[w].diverging
                                  THEN [@ EXCEPT !.stage = "storing"]
                             ELSE Advance(@),
                !.io_error = @ \/ io = "error"]
    /\ UNCHANGED <<doc, selectors, pc, algorithm, stack, matches, style_bloom, log, stats,
                   results, verdict, peer, interner, loader, cells>>

\* `flag.store(true, ..)` after a comparison that returned false.
StoreFlag ==
    /\ harness.outcome = "running"
    /\ \E w \in Running(harness) :
       \E alg \in {HarnessAlgorithms[harness.tasks[w].compared + 1]} :
          /\ harness.tasks[w].stage = "storing"
          /\ harness' = [harness EXCEPT
                !.flags = flag_store(@, alg),
                !.tasks[w] = Advance(@)]
    /\ UNCHANGED <<doc, selectors, pc, algorithm, stack, matches, style_bloom, log, stats,
                   results, verdict, peer, interner, loader, cells>>

\* collect::<Result<_>>()? once no closure runs: the error of a closure is
\* returned; else the folders of the strategies without a flag are removed,
\* which may fail, and the test panics when a flag is set.
Collect ==
    /\ harness.outcome = "running"
    /\ Running(harness) = {}
    /\ \/ \A w \in 1..MaxWebsites : harness.tasks[w].stage = "done"
       \/ \E w \in 1..MaxWebsites : harness.tasks[w].stage = "error"
    /\ \E io \in {"ok", "error"} :
          /\ (harness.io_error \/ harness.flags = Range(HarnessAlgorithms)) => io = "ok"
          /\ harness' = [harness EXCEPT
                !.io_error = @ \/ io = "error",
                !.outcome = IF harness.io_error \/ io = "error" THEN "error"
                            ELSE IF harness.flags # {} THEN "panicked"
                            ELSE "passed"]
    /\ UNCHANGED <<doc, selectors, pc, algorithm, stack, matches, style_bloom, log, stats,
                   results, verdict, peer, interner, loader, cells>>

WorkersNext ==
    \/ TakeWebsite
    \/ CompareWithNaive
    \/ StoreFlag
    \/ Collect

WorkersSpec == WorkersInit /\ [][WorkersNext]_vars

\* ------------------------------------------------------------------------
\* Properties
\* ------------------------------------------------------------------------
\* The node behind an element identity key.
NodeOf(id) == CHOOSE e \in 1..doc.n : NodeIdHash[e] = id

\* The node of the i-th entry of a result vector.
EntryNode(v, i) == NodeOf(v[i].element.id)

\* The ancestor elements of e, as a set.
AncestorSet(e) == Range(Ancestors(doc, e))

\* The elements of the subtree below and including e.
Subtree(e) == Reachable(doc, e)

\* The selector texts of an entry's outcome.
EntryTexts(entry) == SetSelectorsFrom(entry.selectors).selectors

\* The element the running traversal visited last.
Current == stack[Len(stack)].element

\* C1: for every document and selector list and each optimized strategy, the
\* canonicalized result of the strategy equals the canonicalized result of
\* Naive (every identity key maps to the same set of selector texts), so
\* compare_with_naive never finds the two different.
C1_CrossStrategyEquivalence ==
    (results # <<>> /\ results[1].algorithm = Naive) =>
        /\ \A naive \in {Canonical(results[1].matches)} :
              \A i \in 1..Len(results) : Canonical(results[i].matches) = naive
        /\ verdict # "different"

\* Naive and the bloom-filter strategy have been compared on a document where
\* some element matched a selector and some element matched none.
C1_Witness ==
    /\ verdict = "equal"
    /\ results[1].algorithm = Naive
    /\ results[NumRuns].algorithm = WithBloomFilter
    /\ \E i \in 1..Len(results[NumRuns].matches) :
          EntryTexts(results[NumRuns].matches[i]) # {}
    /\ \E i \in 2..Len(results[NumRuns].matches) :
          EntryTexts(results[NumRuns].matches[i]) = {}

C3_OneEntryPerElement ==
    \A r \in 1..Len(results) :
        /\ Len(results[r].matches) = Cardinality(Reachable(doc, root_element(doc)))
        /\ { results[r].matches[i].element : i \in 1..Len(results[r].matches) }
              = { ElementFrom(doc, e) : e \in Reachable(doc, root_element(doc)) }
        /\ \A i \in 1..Len(results[r].matches) :
              IsElement(doc, EntryNode(results[r].matches, i))

\* A traversal finished on a document with a text node between elements and
\* an element two levels below the root.
C3_Witness ==
    /\ results # <<>>
    /\ Len(results[1].matches) >= 3
    /\ \E t \in 1..doc.n : doc.kind[t] = TextKind /\ \E e \in 1..doc.n : e > t /\ IsElement(doc, e)
    /\ \E e \in 1..doc.n : IsElement(doc, e) /\ Len(Ancestors(doc, e)) = 2

\* C4: in every strategy the result sequence is in preorder: an element's
\* entry comes before the entries of its descendants, and the subtrees of
\* the children of an element appear left to right in document order, each
\* complete before the entry of the next sibling.
C4_Preorder ==
    \A node \in {[i \in 1..Len(matches) |-> EntryNode(matches, i)]} :
    \A below \in {[e \in 1..doc.n |-> Subtree(e)]} :
    \A kids \in {[p \in 1..doc.n |-> child_elements(doc, p)]} :
        \A i, j \in 1..Len(matches) :
            i < j =>
                /\ node[j] \notin AncestorSet(node[i])
                /\ \A p \in 1..doc.n : \A x, y \in 1..Len(kids[p]) :
                      (x # y /\ node[i] \in below[kids[p][x]] /\ node[j] \in below[kids[p][y]])
                      => x < y

\* The walk has recorded a child of the root, a child of that child and then
\* the next child of the root.
C4_Witness ==
    /\ Len(matches) >= 4
    /\ Len(Ancestors(doc, EntryNode(matches, Len(matches) - 1))) = 2
    /\ Len(Ancestors(doc, EntryNode(matches, Len(matches)))) = 1

\* C5: in the style-sharing strategy a Direct outcome is recorded only for an
\* element whose sharing check returned None (and an element whose check
\* returned Some gets SharedWith and no selector-map query): every entry that
\* holds selectors follows a sharing check of its element that missed.
C5_DirectOnlyAfterSharingMiss ==
    (algorithm = WithStyleSharing) =>
        \A i \in 1..Len(log) :
            ( /\ log[i].op = "record"
              /\ \E k \in 1..Len(matches) :
                    /\ EntryNode(matches, k) = log[i].element
                    /\ matches[k].selectors.kind = "Selectors" )
            => \E j \in 1..(i - 1) : log[j] = Event("sharing_check_none", log[i].element)

\* C6: in the style-sharing strategy the sharing cache is consulted before
\* any selector matching for an element (and an element is offered to the
\* cache only after its own full match): every selector-map query follows a
\* lookup of the same element in the cache.
C6_CacheConsultedBeforeMatching ==
    (algorithm = WithStyleSharing) =>
        \A i \in 1..Len(log) :
            log[i].op = "query_map" =>
                \E j \in 1..(i - 1) : log[j] = Event("cache_lookup", log[i].element)

FilterOf(es) ==
    [k \in 0..(KeyMask - 1) |->
        Cardinality({ i \in 1..Len(es) : hash1(AtomHash(doc.kind[es[i]])) = k })
        + Cardinality({ i \in 1..Len(es) : hash2(AtomHash(doc.kind[es[i]])) = k })]

\* C9: during a preorder walk, right after insert_parents_recovering(element,
\* depth) the bloom filter holds the fingerprints of exactly the ancestors of
\* the element (the element excluded), also when the previous element was a
\* sibling or a deeper node of another branch.
C9_BloomHoldsAncestors ==
    (pc = "walk" /\ UsesBloom(algorithm)) =>
        /\ ~style_bloom.poisoned
        /\ style_bloom.elements = Ancestors(doc, Current)
        /\ style_bloom.filter = FilterOf(Ancestors(doc, Current))

\* The filter was synchronized for a child of the root right after a node two
\* levels below the root in the previous branch: stale entries were popped.
C9_Witness ==
    /\ pc = "walk"
    /\ algorithm = WithBloomFilter
    /\ Len(matches) >= 4
    /\ Len(Ancestors(doc, EntryNode(matches, Len(matches) - 1))) = 2
    /\ Current = EntryNode(matches, Len(matches))
    /\ style_bloom.elements = <<root_element(doc)>>

\* C10: the ancestor bloom filter never causes a false negative: a selector
\* that matches an element under full matching is not fast-rejected for it,
\* so every selector Naive reports for an element is reported with the filter
\* in place.
C10_NoFalseNegative ==
    /\ (pc = "walk" /\ UsesBloom(algorithm)) =>
          \A i \in 1..Len(selectors) :
              matches_complex_selector(doc, Current, selectors[i], 1)
                  => ~fast_rejected(selectors[i], TRUE, SomeFilter(style_bloom.filter))
    /\ \A r \in 1..Len(results) :
          (results[1].algorithm = Naive /\ UsesBloom(results[r].algorithm)) =>
              \A i \in 1..Len(results[1].matches) :
                  \E j \in 1..Len(results[r].matches) :
                      /\ results[r].matches[j].element = results[1].matches[i].element
                      /\ EntryTexts(results[1].matches[i]) \subseteq EntryTexts(results[r].matches[j])

\* The bloom-filter strategy is at an element for which the filter lets a
\* matching selector with a required ancestor through and fast-rejects
\* another selector.
C10_Witness ==
    /\ pc = "walk"
    /\ algorithm = WithBloomFilter
    /\ \E i \in 1..Len(selectors) :
          /\ Len(selectors[i]) > 1
          /\ matches_complex_selector(doc, Current, selectors[i], 1)
    /\ \E i \in 1..Len(selectors) :
          fast_rejected(selectors[i], TRUE, SomeFilter(style_bloom.filter))

\* C11: for every element e and every child c that e's child-element
\* iteration yields, traversal_parent(c) is e, and traversal_parent of the
\* root element is None; so every frame of a walk holds a child of the frame
\* below it.
C11_ParentInvariant ==
    /\ traversal_parent(doc, root_element(doc)) = 0
    /\ \A e \in 1..doc.n :
          IsElement(doc, e) =>
              \A kids \in {child_elements(doc, e)} :
                  \A i \in 1..Len(kids) : traversal_parent(doc, kids[i]) = e
    /\ \A i \in 1..Len(stack) :
          traversal_parent(doc, stack[i].element)
              = IF i = 1 THEN 0 ELSE stack[i - 1].element

\* A walk without a parent assertion of its own has descended two levels
\* below the root.
C11_Witness ==
    /\ pc = "walk"
    /\ algorithm = WithSelectorMap
    /\ Len(stack) >= 3

Occurrences(seq, x) == Cardinality({ i \in 1..Len(seq) : seq[i] = x })

\* C20 as stated: every Direct outcome is duplicate-free, also for a selector
\* list in which the same selector occurs more than once.
C20_DirectDuplicateFree ==
    \A k \in 1..Len(matches) :
        matches[k].selectors.kind = "Selectors" =>
            \A i, j \in 1..Len(matches[k].selectors.selectors) :
                i # j => matches[k].selectors.selectors[i] # matches[k].selectors.selectors[j]

\* C20 amended: a Direct outcome holds one entry for each position of the
\* selector list (each rule of the selector map) whose selector matches the
\* element and no other entry: it holds a selector as often as the list does,
\* so it is duplicate-free exactly when the matching part of the list is.
C20_OneEntryPerMatchingRule ==
    \A k \in 1..Len(matches) :
        /\ matches[k].selectors.kind = "Selectors"
        /\ \A e \in {EntryNode(matches, k)} : \A recorded \in {matches[k].selectors.selectors} :
              \A s \in SelectorPool :
                  Occurrences(recorded, s)
                      = IF matches_complex_selector(doc, e, s, 1)
                        THEN Occurrences(selectors, s) ELSE 0

\* The selector-map traversal recorded the same selector twice for an element
\* because the list holds it twice.
C20_Witness ==
    /\ algorithm = WithSelectorMap
    /\ \E k \in 1..Len(matches) :
          /\ Len(matches[k].selectors.selectors) = 2
          /\ matches[k].selectors.selectors[1] = matches[k].selectors.selectors[2]

\* The fields of Statistics that a strategy instruments.
Instrumented(alg) == { f \in CountFields : NewStatistics(alg)[f] # None }

\* C15: a Statistics field that a strategy does not instrument is None in the
\* aggregate after folding any number of per-element contributions, and an
\* instrumented field is a number; combining None with Some gives None on
\* either side, never a number.
C15_NonePropagates ==
    /\ pc = "walk" =>
          \A f \in CountFields :
              IF f \in Instrumented(algorithm)
              THEN stats[f] # None /\ stats[f][1] >= 0
              ELSE stats[f] = None
    /\ \A r \in 1..Len(results) : \A f \in CountFields :
          (results[r].stats[f] = None) <=> (f \notin Instrumented(results[r].algorithm))
    /\ \A n \in 0..MaxNodes :
          OptAdd(None, Some(n)) = None /\ OptAdd(Some(n), None) = None

\* Naive finished a document of several elements: selector_map_hits is None
\* while slow_rejects counted.
C15_Witness ==
    /\ results # <<>>
    /\ results[1].algorithm = Naive
    /\ Len(results[1].matches) >= 3
    /\ results[1].stats["selector_map_hits"] = None
    /\ results[1].stats["slow_rejects"] # None
    /\ results[1].stats["slow_rejects"][1] > 0

\* The contribution of element e to the Statistics of a strategy, with the
\* filter that holds the ancestors of e.
OwnStatistics(alg, e) ==
    ElementStatistics(alg, e, [filter |-> FilterOf(Ancestors(doc, e))])

RECURSIVE SumOfSeq(_)
SumOfSeq(ns) == IF ns = <<>> THEN 0 ELSE Head(ns) + SumOfSeq(Tail(ns))

Reversed(seq) == [i \in 1..Len(seq) |-> seq[Len(seq) + 1 - i]]

RECURSIVE OwnCounts(_, _, _)
\* The own count of field f of each of the first n nodes, 0 for a node that
\* is no element.
OwnCounts(alg, f, n) ==
    IF n = 0 THEN <<>>
    ELSE OwnCounts(alg, f, n - 1)
         \o <<IF IsElement(doc, n) THEN OwnStatistics(alg, n)[f][1] ELSE 0>>

RECURSIVE SubtreeCount(_, _, _)
\* A field over the subtree of e, given the own count of every element: the
\* element's own count plus the counts of the child subtrees, summed left to
\* right or right to left.
SubtreeCount(own, e, leftToRight) ==
    LET kids == IF leftToRight THEN child_elements(doc, e)
                ELSE Reversed(child_elements(doc, e))
    IN IF leftToRight
       THEN own[e] + SumOfSeq([i \in 1..Len(kids) |-> SubtreeCount(own, kids[i], leftToRight)])
       ELSE SumOfSeq([i \in 1..Len(kids) |-> SubtreeCount(own, kids[i], leftToRight)]) + own[e]

\* C16: the aggregate count statistics of the traversal of a subtree equal
\* the pointwise sum of the element's own contribution and the aggregates of
\* its child subtrees, in whichever order the contributions are summed.
C16_StatisticsAdditive ==
    \A r \in 1..Len(results) :
        \A f \in Instrumented(results[r].algorithm) :
            \A own \in {OwnCounts(results[r].algorithm, f, doc.n)} :
                /\ results[r].stats[f] = Some(SubtreeCount(own, root_element(doc), TRUE))
                /\ results[r].stats[f] = Some(SubtreeCount(own, root_element(doc), FALSE))

\* The bloom-filter strategy finished a document with an element two levels
\* below the root and counted fast and slow rejects.
C16_Witness ==
    /\ results # <<>>
    /\ results[1].algorithm = WithBloomFilter
    /\ \E e \in 1..doc.n : IsElement(doc, e) /\ Len(Ancestors(doc, e)) = 2
    /\ results[1].stats["fast_rejects"][1] > 0
    /\ results[1].stats["slow_rejects"][1] > 0

\* The root has k >= 2 children, all of them elements without children and
\* with the same start tag, and the document holds nothing else.
InterchangeableSiblings(k) ==
    /\ k >= 2
    /\ doc.n = k + 2
    /\ \A i \in 3..doc.n : doc.parent[i] = root_element(doc) /\ IsElement(doc, i)
    /\ \A i, j \in 3..doc.n : get_start_tag(doc, i) = get_start_tag(doc, j)

\* C17: for a parent with k sibling elements that are interchangeable (ten in
\* the spec's scenario) the style-sharing strategy reports sharing_instances
\* = k - 1, the first sibling matched directly and each other one recorded as
\* shared, while Naive reports sharing_instances = None.
C17_SiblingsShare ==
    \A r \in 1..Len(results) : \A k \in 2..MaxNodes :
        InterchangeableSiblings(k) =>
            /\ results[r].algorithm = WithStyleSharing =>
                  /\ results[r].stats["sharing_instances"] = Some(k - 1)
                  /\ Cardinality({ i \in 1..Len(results[r].matches) :
                        results[r].matches[i].selectors.kind = "SharedWithElement" }) = k - 1
            /\ results[r].algorithm = Naive =>
                  results[r].stats["sharing_instances"] = None

\* ------------------------------------------------------------------------
\* C13
\* ------------------------------------------------------------------------
\* The position of the entry of an element key in a result.
IndexOfKey(v, id) == CHOOSE j \in 1..Len(v) : v[j].element.id = id

RECURSIVE TextsAt(_, _)
\* The set of selector texts the i-th entry of a result stands for: the texts
\* of its own selectors, or those of the entry it refers to.
TextsAt(v, i) ==
    IF v[i].selectors.kind = "Selectors"
    THEN { to_css_string(v[i].selectors.selectors[k]) :
             k \in 1..Len(v[i].selectors.selectors) }
    ELSE TextsAt(v, IndexOfKey(v, v[i].selectors.id))

\* C13: two results of a document are found equal exactly when every
\* element key stands for the same set of selector texts in both, whatever
\* the order and the multiplicity of the selectors of an entry and whether
\* an entry holds its selectors or refers to another element.
C13_EqualIffSameTexts ==
    verdict # "none" =>
        \A first \in {results[1].matches} : \A second \in {results[NumRuns].matches} :
            (verdict = "equal") <=>
                /\ { first[i].element.id : i \in 1..Len(first) }
                     = { second[i].element.id : i \in 1..Len(second) }
                /\ \A i \in 1..Len(first) :
                       TextsAt(first, i) = TextsAt(second, IndexOfKey(second, first[i].element.id))

\* Two results found equal although one entry of the second repeats its
\* selectors and another one refers to an earlier element.
C13_Witness ==
    /\ verdict = "equal"
    /\ results[NumRuns].algorithm = UnknownStrategy
    /\ \E i, j \in 1..Len(results[NumRuns].matches) :
          /\ results[NumRuns].matches[i].selectors.kind = "Selectors"
          /\ Len(results[NumRuns].matches[i].selectors.selectors)
               > Len(results[1].matches[i].selectors.selectors)
          /\ results[NumRuns].matches[j].selectors.kind = "SharedWithElement"
          /\ TextsAt(results[NumRuns].matches, j) # {}

\* ------------------------------------------------------------------------
\* C18
\* ------------------------------------------------------------------------
\* The position of a strategy in the list of the test.
PositionOf(alg) == CHOOSE k \in 1..Len(HarnessAlgorithms) : HarnessAlgorithms[k] = alg

\* The comparison of a strategy on a website lies behind the harness.
Compared(h, alg, w) ==
    \/ w < h.website
    \/ w = h.website /\ PositionOf(alg) <= h.compared

RECURSIVE Preorder(_)
RECURSIVE PreorderOfAll(_)
\* The elements below and including e in document order.
Preorder(e) == <<e>> \o PreorderOfAll(child_elements(doc, e))

PreorderOfAll(es) ==
    IF es = <<>> THEN <<>> ELSE Preorder(Head(es)) \o PreorderOfAll(Tail(es))

RECURSIVE AloneAfter(_, _)
\* The filter, the result vector and the statistics of a traversal that runs
\* alone, once the bodies of its first k elements are done.
AloneAfter(alg, k) ==
    IF k = 0
    THEN [style_bloom |-> NewStyleBloom, matches |-> NewMatches,
          stats |-> NewStatistics(alg)]
    ELSE LET before == AloneAfter(alg, k - 1)
             e == Preorder(root_element(doc))[k]
             done == Body(alg, e, Len(Ancestors(doc, e)), before.style_bloom,
                          before.matches, before.stats)
         IN [style_bloom |-> done.style_bloom, matches |-> done.matches,
             stats |-> done.stats]

\* C19: whatever the other thread does in between, the filter, the result
\* vector and the statistics of a traversal are at every step those of the
\* same traversal run alone, and so is the result it returns.
C19_ResultAsRunAlone ==
    /\ pc = "walk" =>
          \A alone \in {AloneAfter(algorithm, Len(matches))} :
              /\ matches = alone.matches
              /\ style_bloom = alone.style_bloom
              /\ stats = alone.stats
    /\ \A r \in 1..Len(results) :
          \A alone \in {AloneAfter(results[r].algorithm,
                                   Len(Preorder(root_element(doc))))} :
              /\ results[r].matches = alone.matches
              /\ results[r].stats = alone.stats

\* Both threads are in the middle of a traversal with a bloom filter, each
\* with a filter of its own contents.
C19_Witness ==
    /\ pc = "walk"
    /\ peer # NoPeer
    /\ peer.pc = "walk"
    /\ UsesBloom(algorithm)
    /\ UsesBloom(peer.algorithm)
    /\ style_bloom # peer.style_bloom
    /\ style_bloom # NewStyleBloom
    /\ interner # {}

\* ------------------------------------------------------------------------
\* C21
\* ------------------------------------------------------------------------
\* C21: the Naive strategy records for each element exactly the selectors of
\* the full input list that match the element, in the order of the list: a
\* position of the list is in the outcome if and only if its selector
\* matches; every element gets one pass over the list and neither a query of
\* the selector map nor a bloom filter.
C21_NaiveRecordsExactlyMatching ==
    algorithm = Naive =>
        /\ \A k \in 1..Len(matches) :
              \A e \in {EntryNode(matches, k)} :
                  matches[k].selectors
                      = Selectors(SelectSeq(selectors,
                            LAMBDA s : matches_complex_selector(doc, e, s, 1)))
        /\ \A i \in 1..Len(log) : log[i].op \notin {"query_map", "bloom_sync", "sharing_target"}
        /\ Cardinality({ i \in 1..Len(log) : log[i].op = "match_all" }) = Len(matches)
        /\ style_bloom = NewStyleBloom

\* Naive recorded one of two listed selectors for an element below the root
\* and left the other one out.
C21_Witness ==
    /\ algorithm = Naive
    /\ Len(selectors) = 2
    /\ \E k \in 2..Len(matches) :
          /\ Len(matches[k].selectors.selectors) = 1
          /\ matches[k].selectors.selectors[1] = selectors[2]

\* ------------------------------------------------------------------------
\* C22
\* ------------------------------------------------------------------------
\* The qualified rules of a stylesheet whose prelude parses.
ParsedRules(css) ==
    { i \in 1..Len(css) :
        /\ ~css[i].at
        /\ \A k \in 1..Len(css[i].prelude) : parse_complex_selector(css[i].prelude[k]) # None }

\* How often the rules of a stylesheet that parse hold a text whose
\* selector is sel.
ParsedOccurrences(css, sel) ==
    Cardinality({ pos \in (1..Len(css)) \X (1..2) :
        /\ pos[1] \in ParsedRules(css)
        /\ pos[2] <= Len(css[pos[1]].prelude)
        /\ parse_complex_selector(css[pos[1]].prelude[pos[2]]) = Some(sel) })

\* The selectors the texts of the rule pool stand for.
ParsedPool ==
    { parse_complex_selector(t)[1] :
        t \in { t \in {TextBDescB, TextHtmlChildB, TextBEmpty, TextDangling} :
                  parse_complex_selector(t) # None } }

\* C22 as stated: the selector set handed to the traversal holds exactly the
\* selectors of the rules that parsed successfully.
C22_ExactlyParsedRules ==
    loader.stage = "loaded" =>
        \A sel \in ParsedPool :
            Occurrences(selectors, sel) = ParsedOccurrences(loader.css, sel)

\* C22: a rule whose prelude fails to parse contributes no selector and does
\* not end the loading, an at-rule contributes none, and the selector set
\* handed to the traversal holds exactly the selectors without pseudo-class
\* of the rules that parsed, so each of them is one the traversal evaluates.
C22_ParsedRulesWithoutPseudoClass ==
    /\ loader.stage = "loaded" =>
          /\ \A sel \in ParsedPool :
                Occurrences(selectors, sel)
                    = IF selector_has_pseudo_class(sel) THEN 0
                      ELSE ParsedOccurrences(loader.css, sel)
          /\ \A i \in 1..Len(selectors) : selectors[i] \in SelectorPool
    /\ loader.stage = "parsing" =>
          \A i \in 1..Len(loader.rules) :
              (loader.rules[i].status = "ok" /\ loader.rules[i].selector # None)
                  <=> i \in ParsedRules(loader.css)

\* A stylesheet whose first rule fails to parse and whose second rule
\* parses is loaded: the selectors of the second rule are handed on.
C22_Witness ==
    /\ loader.stage = "loaded"
    /\ Len(loader.css) = 2
    /\ loader.rules[1].status = "err"
    /\ loader.rules[2].status = "ok"
    /\ Len(selectors) = 2

\* ------------------------------------------------------------------------
\* C23, C24
\* ------------------------------------------------------------------------
\* C23 as stated: do_all_websites yields one item for each entry that is a
\* directory and nothing for an entry that is not one, so that ten entries
\* of which nine are directories give nine items.
C23_OneItemPerDirectory ==
    loader.stage \in {"listing", "counted"} =>
        /\ loader.ok + loader.err = loader.dirs
        /\ (loader.stage = "counted" /\ loader.dirs = NumEntries - 1) =>
              loader.ok + loader.err = NumEntries - 1

\* C24: when the website directory can be listed, get_main_html returns
\* Ok(None) if it holds no regular file with extension html (a subdirectory
\* named index.html does not count), Ok(Some(file)) with that file if it
\* holds exactly one, and an error MultipleHtmlFiles if it holds more.
C24_MainHtml ==
    (loader.stage = "listing" /\ loader.main # <<>> /\ loader.listed) =>
        \A main \in {loader.main[1]} :
        \A html \in {{ f \in loader.content : f.is_file /\ f.extension = "html" }} :
            /\ html = {} => main.status = "ok" /\ main.file = None
            /\ (\E f \in html : html = {f}) =>
                  main.status = "ok" /\ main.file # None /\ main.file[1] \in html
            /\ (\E f, g \in html : f # g) =>
                  main.status = "err" /\ main.kind = "MultipleHtmlFiles"

\* get_main_html has answered for a directory that holds a regular html
\* file next to a subdirectory named index.html.
C24_Witness ==
    /\ loader.stage = "listing"
    /\ loader.main # <<>>
    /\ loader.listed
    /\ DirEntry("index", "html", FALSE) \in loader.content
    /\ DirEntry("1", "html", TRUE) \in loader.content
    /\ loader.main[1].file = Some(DirEntry("1", "html", TRUE))

\* ------------------------------------------------------------------------
\* C25, C26, C27
\* ------------------------------------------------------------------------
\* The positions of the log that hold the event op of element e.
EventsOf(op, e) == { i \in 1..Len(log) : log[i] = Event(op, e) }

\* C25: in the bloom-filter and style-sharing traversals the steps of each
\* element come in the order bloom sync, sharing target (style sharing) and
\* selector-map query, record, recursion: nothing is matched for an element
\* before the filter is synchronized for it, and no child is entered before
\* the outcome of its parent is recorded.
C25_StepOrder ==
    UsesBloom(algorithm) =>
        \A i \in 1..Len(log) : \A e \in {log[i].element} :
            /\ log[i].op \in {"sharing_target", "query_map"} =>
                  \E s \in EventsOf("bloom_sync", e) : s < i
            /\ (log[i].op = "query_map" /\ algorithm = WithStyleSharing) =>
                  \E t \in EventsOf("sharing_target", e) : t < i
            /\ log[i].op = "record" =>
                  /\ \E q \in EventsOf("query_map", e) : q < i
                  /\ \A c \in Range(child_elements(doc, e)) :
                        \A j \in 1..Len(log) : log[j].element = c => i < j
            /\ log[i].op = "recurse" =>
                  /\ \E r \in EventsOf("record", parent_element(doc, e)) : r < i
                  /\ \A j \in 1..Len(log) :
                        (log[j].element = e /\ log[j].op \notin {"parent_check", "recurse"})
                            => i < j

\* A style-sharing traversal has entered a grandchild of the root.
C25_Witness ==
    /\ algorithm = WithStyleSharing
    /\ pc = "walk"
    /\ \E i \in 1..Len(log) :
          /\ log[i].op = "record"
          /\ Len(Ancestors(doc, log[i].element)) = 2

\* C26: in the bloom-filter and style-sharing traversals the depth handed to
\* insert_parents_recovering for an element is the number of its ancestor
\* elements: 0 for the root element, the depth of the parent plus one for a
\* child.
C26_DepthIsAncestorCount ==
    UsesBloom(algorithm) =>
        \A k \in 1..Len(stack) :
            /\ stack[k].element_depth = Cardinality(AncestorSet(stack[k].element))
            /\ k = 1 => stack[k].element = root_element(doc) /\ stack[k].element_depth = 0
            /\ k > 1 => stack[k].element_depth = stack[k - 1].element_depth + 1

\* A bloom-filter traversal is three frames deep.
C26_Witness ==
    /\ algorithm = WithBloomFilter
    /\ pc = "walk"
    /\ Len(stack) = 3
    /\ stack[3].element_depth = 2

\* The traversal has returned a result with an entry for every element and
\* no frame is left.
Returned ==
    /\ pc = "idle"
    /\ stack = <<>>
    /\ results # <<>>
    /\ results[Len(results)].algorithm = algorithm
    /\ { EntryNode(results[Len(results)].matches, k) :
           k \in 1..Len(results[Len(results)].matches) } = Subtree(root_element(doc))

\* C27: on every document the traversal of each strategy ends: a traversal
\* under way leads to a returned result that holds every element, with every
\* frame returned, or to the abort of the parent check.
C27_Terminates == (pc = "walk") ~> (Returned \/ pc = "panicked")

\* A traversal of a document with a grandchild of the root has returned.
C27_Witness ==
    /\ Returned
    /\ \E e \in Subtree(root_element(doc)) : Len(Ancestors(doc, e)) = 2

\* ------------------------------------------------------------------------
\* C28
\* ------------------------------------------------------------------------
RECURSIVE ChainEnd(_, _)
\* The position of the entry that holds its selectors at the end of the
\* chain of references that starts at the i-th entry of a result.
ChainEnd(v, i) ==
    IF v[i].selectors.kind = "Selectors" THEN i
    ELSE ChainEnd(v, IndexOfKey(v, v[i].selectors.id))

\* C28: the canonical form of a compared result has the keys of the result,
\* and each of its entries holds selector texts: those of the entry's own
\* selectors when it holds selectors, those of the entry at the end of its
\* chain of references when it refers to another element.
C28_CanonicalResolvesEveryEntry ==
    verdict # "none" =>
        \A r \in 1..Len(results) : \A v \in {results[r].matches} :
        \A canonical \in {SerDocumentMatchesFrom(SetDocumentMatchesFrom(v))} :
            /\ DOMAIN canonical = { v[i].element.id : i \in 1..Len(v) }
            /\ \A i \in 1..Len(v) : \A last \in {v[ChainEnd(v, i)].selectors.selectors} :
                  canonical[v[i].element.id].selectors
                      = { to_css_string(last[k]) : k \in 1..Len(last) }

\* A compared result in which an entry refers to another element and
\* stands for the selector text of the entry at the end of its chain.
C28_Witness ==
    /\ verdict # "none"
    /\ \E i \in 1..Len(results[NumRuns].matches) :
       \E v \in {results[NumRuns].matches} :
          /\ v[i].selectors.kind = "SharedWithElement"
          /\ v[ChainEnd(v, i)].selectors.selectors # <<>>
          /\ Canonical(v)[v[i].element.id].selectors # {}

\* ------------------------------------------------------------------------
\* C29
\* ------------------------------------------------------------------------
\* C29 as stated: no step of a traversal changes the document tree, the
\* data of an element or the selector set.
C29_InputsUnchanged ==
    [][doc' = doc /\ selectors' = selectors /\ cells' = cells]_vars

\* C29: no step of a traversal changes the document tree, the selector set
\* or the interned style blocks; the data of an element change only in that
\* the cells of its id and classes are filled and stay filled; and whatever
\* ran before, on whatever cells, a traversal starts with a result vector, a
\* filter and statistics of its own, as a first traversal does.
C29_InputsKeptButCells ==
    [][/\ doc' = doc
       /\ selectors' = selectors
       /\ interner' = interner
       /\ cells \subseteq cells'
       /\ cells' \subseteq Subtree(root_element(doc))
       /\ (pc = "idle" /\ pc' = "walk") =>
             \A first \in {Recorded(algorithm', root_element(doc),
                               IF UsesBloom(algorithm')
                               THEN insert_parents_recovering(doc, NewStyleBloom,
                                                              root_element(doc), 0)
                               ELSE NewStyleBloom,
                               <<>>, NewStatistics(algorithm'))} :
                 /\ matches' = first.matches
                 /\ style_bloom' = first.style_bloom
                 /\ stats' = first.stats
                 /\ log' = first.events
                 /\ stack' = <<Frame(root_element(doc), 0)>>]_vars

\* A second traversal is under way on a document whose cells the first
\* traversal has filled.
C29_Witness ==
    /\ Len(results) = 1
    /\ pc = "walk"
    /\ cells = Subtree(root_element(doc))
    /\ Len(matches) < Len(results[1].matches)

\* ------------------------------------------------------------------------
\* C30
\* ------------------------------------------------------------------------
\* The closure of website w has gone past the comparison of the strategy.
Past(h, w, alg) == h.tasks[w].compared >= PositionOf(alg)

\* C30: the flag of a strategy is set exactly by the closures that found a
\* website to differ from Naive for it and is never cleared; when no I/O
\* error has occurred then, however the closures interleave, after all of
\* them have returned the flag of a strategy is set if and only if some
\* website differs from Naive for it, and the test panics if and only if a
\* flag is set.
C30_FlagIffSomeWebsiteDiverged ==
    /\ \A alg \in Range(HarnessAlgorithms) :
          alg \in harness.flags <=>
              \E w \in 1..MaxWebsites :
                  alg \in harness.websites[w].diverging /\ Past(harness, w, alg)
    /\ (harness.outcome # "running" /\ ~harness.io_error) =>
          /\ \A alg \in Range(HarnessAlgorithms) :
                alg \in harness.flags <=>
                    \E w \in 1..MaxWebsites :
                        harness.websites[w].present /\ alg \in harness.websites[w].diverging
          /\ harness.outcome = "panicked" <=> harness.flags # {}
          /\ harness.outcome = "passed" <=> harness.flags = {}

\* The test has panicked after two closures have set different flags.
C30_Witness ==
    /\ harness.outcome = "panicked"
    /\ ~harness.io_error
    /\ \E v, w \in 1..MaxWebsites :
          /\ Cardinality(harness.websites[v].diverging) = 1
          /\ Cardinality(harness.websites[w].diverging) = 1
          /\ harness.websites[v].diverging # harness.websites[w].diverging
          /\ harness.flags = harness.websites[v].diverging \cup harness.websites[w].diverging

====
